---- MODULE Spec2Model ----
(***************************************************************************)
(* Model of utils.py (NFL Big Data Bowl utility functions): the play       *)
(* aggregator get_player_points_array, the role filter                     *)
(* is_offensive_player and the two field renderers plot_multiple_points    *)
(* and plot_single_trajectory.                                             *)
(*                                                                         *)
(* Every function is synchronous and keeps no state between calls, so a    *)
(* behaviour is one call: Init draws the arguments, the action runs the    *)
(* whole function body and leaves its return value, the exception it       *)
(* raised and what it drew.                                                *)
(*                                                                         *)
(* Values that pandas may hold as missing (NaN / None) are optional        *)
(* values: <<>> is missing, <<v>> is the value v.                          *)
(***************************************************************************)
EXTENDS Integers, Sequences, FiniteSets, TLC

VARIABLES fn,      \* the function being called
          args,    \* its arguments
          pc,      \* "call" before the body runs, then "returned" or "raised"
          locals,  \* local variables of the body worth observing
          ret,     \* the return value (when pc = "returned")
          exc,     \* the exception that left the function (when pc = "raised")
          canvas   \* the artists drawn so far, in drawing order

vars == <<fn, args, pc, locals, ret, exc, canvas>>

---------------------------------------------------------------------------
(* Optional values *)

None == <<>>
Some(v) == <<v>>
\* pd.notna(v)
notna(v) == v # None
\* Python truthiness of an optional integer: None and 0 are falsy.
truthy(v) == v # None /\ v[1] # 0

---------------------------------------------------------------------------
(* Column names (const.py) *)

PLAYER_NAME == "player_name"
BALL_LAND_X == "ball_land_x"
BALL_LAND_Y == "ball_land_y"

---------------------------------------------------------------------------
(* Bounds of the tables, role series and trajectory collections drawn *)

MaxRows == 3
MaxRoles == 4
MaxVaried == 3
MaxRepeat == 10
MaxPoints == 3

---------------------------------------------------------------------------
(* Sequence helpers *)

\* All sequences over S of length at most n.
SeqsUpTo(S, n) == UNION {[1..k -> S] : k \in 0..n}

\* The permutations of 1..n.
Perms[n \in 0..(MaxRows + 1)] ==
    {f \in [1..n -> 1..n] : \A i, j \in 1..n : i # j => f[i] # f[j]}

Min(S) == CHOOSE m \in S : \A o \in S : m <= o

RECURSIVE Ascending(_)
\* The elements of a finite set of integers, ascending.
Ascending(S) == IF S = {} THEN <<>> ELSE <<Min(S)>> \o Ascending(S \ {Min(S)})

---------------------------------------------------------------------------
(* get_player_points_array *)

\* A data frame: the set of its optional columns and its rows in table order.
\* game_id, play_id, frame_id, nfl_id, x and y are always present.
Row(g, p, f, n, xy, name, land) ==
    [game_id |-> g, play_id |-> p, frame_id |-> f, nfl_id |-> n,
     x |-> xy[1], y |-> xy[2], player_name |-> name,
     ball_land_x |-> land[1], ball_land_y |-> land[2]]

\* df[(df[GAME_ID] == game_id) & (df[PLAY_ID] == play_id)]
filter_play(rows, game_id, play_id) ==
    LET match(r) == r.game_id = game_id /\ r.play_id = play_id
    IN  SelectSeq(rows, match)

\* Mutant: the frame sort left out.
sort_values_skipped(rows) == {rows}

\* play_df.sort_values(FRAME_ID): the default sort kind is quicksort, which is
\* not stable, so rows of equal frame may come out in any order.
sort_values(rows) ==
    LET n == Len(rows)
        ok(f) == \A i \in 1..(n - 1) : rows[f[i]].frame_id <= rows[f[i + 1]].frame_id
    IN  {[i \in 1..n |-> rows[f[i]]] : f \in {g \in Perms[n] : ok(g)}}

RECURSIVE first_valid_landing(_)
first_valid_landing(play_df) ==
    IF play_df = <<>> THEN None
    ELSE IF notna(play_df[1].ball_land_x) /\ notna(play_df[1].ball_land_y)
         THEN Some(<<play_df[1].ball_land_x[1], play_df[1].ball_land_y[1]>>)
         ELSE first_valid_landing(Tail(play_df))

\* Mutant: the first row that holds both values, not the first row.
ball_landing_first_valid(columns, play_df) ==
    IF BALL_LAND_X \in columns /\ BALL_LAND_Y \in columns
    THEN first_valid_landing(play_df)
    ELSE None

\* The ball landing of a non-empty play_df; .iloc[0] of an empty frame raises.
ball_landing(columns, play_df) ==
    IF BALL_LAND_X \in columns /\ BALL_LAND_Y \in columns
    THEN LET ball_x == play_df[1].ball_land_x
             ball_y == play_df[1].ball_land_y
         IN  IF notna(ball_x) /\ notna(ball_y)
             THEN Some(<<ball_x[1], ball_y[1]>>)
             ELSE None
    ELSE None

\* Whether reading .iloc[0] of the landing columns raises IndexError.
landing_raises(columns, play_df) ==
    BALL_LAND_X \in columns /\ BALL_LAND_Y \in columns /\ Len(play_df) = 0

RECURSIVE first_seen(_, _)
first_seen(play_df, seen) ==
    IF play_df = <<>> THEN <<>>
    ELSE IF play_df[1].nfl_id \in seen
         THEN first_seen(Tail(play_df), seen)
         ELSE <<play_df[1].nfl_id>>
                 \o first_seen(Tail(play_df), seen \cup {play_df[1].nfl_id})

\* Mutant: the groups in order of first appearance (groupby(sort=False)).
group_keys_unsorted(play_df) == first_seen(play_df, {})

\* The keys play_df.groupby(NFL_ID) iterates over: the distinct identifiers,
\* ascending (sort=True).
group_keys(play_df) == Ascending({play_df[i].nfl_id : i \in 1..Len(play_df)})

\* The group of one key: its rows in the order they have in play_df.
player_group(play_df, nfl_id) ==
    LET mine(r) == r.nfl_id = nfl_id
    IN  SelectSeq(play_df, mine)

\* The points appended for one group: list(zip(player_group[X], player_group[Y])),
\* the expression extract_points is made of.
group_points(group) ==
    [i \in 1..Len(group) |-> <<group[i].x, group[i].y>>]

\* The label appended for one group.
player_label(columns, group, nfl_id) ==
    IF PLAYER_NAME \in columns
    THEN group[1].player_name
    ELSE Some("Player " \o ToString(nfl_id))

\* The loop over the groups: the two parallel lists.
collect(columns, play_df) ==
    LET keys == group_keys(play_df)
    IN  [points_array |->
            [i \in 1..Len(keys) |-> group_points(player_group(play_df, keys[i]))],
         labels |->
            [i \in 1..Len(keys) |->
                player_label(columns, player_group(play_df, keys[i]), keys[i])]]

get_player_points_array ==
    /\ fn = "get_player_points_array"
    /\ pc = "call"
    /\ \E play_df \in sort_values(filter_play(args.df.rows, args.game_id, args.play_id)) :
        /\ locals' = [play_df |-> play_df]
        /\ IF landing_raises(args.df.columns, play_df)
           THEN /\ pc' = "raised"
                /\ exc' = "IndexError"
                /\ ret' = None
           ELSE /\ pc' = "returned"
                /\ exc' = ""
                /\ ret' = LET c == collect(args.df.columns, play_df)
                          IN  [points_array |-> c.points_array,
                               labels |-> c.labels,
                               ball_land |-> ball_landing(args.df.columns, play_df)]
    /\ UNCHANGED <<fn, args, canvas>>

---------------------------------------------------------------------------
(* Tables drawn for the aggregator *)

\* The arguments drawn: a table over the given rows and optional columns, of
\* at most MaxRows rows, and a play selection.
AggInit(rowset, columnsets, games, plays) ==
    /\ fn = "get_player_points_array"
    /\ pc = "call"
    /\ \E c \in columnsets, r \in SeqsUpTo(rowset, MaxRows), g \in games, p \in plays :
          args = [df |-> [columns |-> c, rows |-> r], game_id |-> g, play_id |-> p]
    /\ locals = None
    /\ ret = None
    /\ exc = ""
    /\ canvas = <<>>

\* Trajectories: rows of two players over two frames, in the selected play,
\* in another play of the same game and in the same play of another game.
PlayerName(n) == Some(IF n = 1 THEN "Ann" ELSE "Bob")
TrajRows ==
    {Row(gp[1], gp[2], f, n, xy, PlayerName(n), <<Some(60), Some(10)>>) :
        gp \in {<<100, 7>>, <<100, 8>>, <<101, 7>>}, f \in {1, 2}, n \in {1, 2},
        xy \in {<<10, 20>>, <<12, 21>>}}
TrajInit == AggInit(TrajRows, {{}, {PLAYER_NAME}}, {100}, {7})
SpecTraj == TrajInit /\ [][get_player_points_array]_vars

\* Landing point: rows of one player whose landing columns hold a value or not.
LandRows ==
    {Row(g, 7, f, 1, <<10, 20>>, PlayerName(1), land) :
        g \in {100, 101}, f \in {1, 2},
        land \in {<<Some(60), Some(10)>>, <<Some(61), Some(11)>>,
                  <<None, Some(10)>>, <<Some(60), None>>}}
LandInit == AggInit(LandRows, SUBSET {BALL_LAND_X, BALL_LAND_Y}, {100}, {7})
SpecLanding == LandInit /\ [][get_player_points_array]_vars

\* Labels: rows of two players whose name holds a value or not.
LabelRows ==
    {Row(g, 7, f, n, <<10, 20>>, name, <<Some(60), Some(10)>>) :
        g \in {100, 101}, f \in {1, 2}, n \in {1, 2},
        name \in {None, Some("Ann"), Some("Bob")}}
LabelInit == AggInit(LabelRows, {{}, {PLAYER_NAME}}, {100}, {7})
SpecLabel == LabelInit /\ [][get_player_points_array]_vars

---------------------------------------------------------------------------
(* What the aggregator's claims speak of, read off the arguments *)

AggReturned == fn = "get_player_points_array" /\ pc = "returned"

\* The table positions of the rows of the selected play.
Matching ==
    {j \in 1..Len(args.df.rows) :
        /\ args.df.rows[j].game_id = args.game_id
        /\ args.df.rows[j].play_id = args.play_id}

\* The distinct players of the selected play, and the positions of one player.
Players == {args.df.rows[j].nfl_id : j \in Matching}
RowsOf(n) == {j \in Matching : args.df.rows[j].nfl_id = n}

\* traj is the (x, y) pairs of the rows at positions J, one pair per row, in an
\* order of ascending frame identifier.
IsTrajectoryOf(traj, J) ==
    /\ Len(traj) = Cardinality(J)
    /\ \E o \in [1..Len(traj) -> J] :
        /\ \A a, b \in 1..Len(traj) : a # b => o[a] # o[b]
        /\ \A a \in 1..(Len(traj) - 1) :
              args.df.rows[o[a]].frame_id <= args.df.rows[o[a + 1]].frame_id
        /\ \A a \in 1..Len(traj) :
              traj[a] = <<args.df.rows[o[a]].x, args.df.rows[o[a]].y>>

\* C1: the returned trajectories are one per distinct player of the selected
\* play, and each is exactly that player's matching rows' (x, y) pairs in
\* ascending frame order: nothing dropped, added, or taken from another player
\* or another play.
C1_TrajectoriesExact ==
    AggReturned =>
        /\ Len(ret.points_array) = Cardinality(Players)
        /\ \E who \in [1..Len(ret.points_array) -> Players] :
            /\ \A a, b \in 1..Len(ret.points_array) : a # b => who[a] # who[b]
            /\ \A a \in 1..Len(ret.points_array) :
                  IsTrajectoryOf(ret.points_array[a], RowsOf(who[a]))

\* A play of two players, one of them with two rows that the table holds in
\* descending frame order and at different positions.
C1_Witness ==
    /\ AggReturned
    /\ Cardinality(Players) = 2
    /\ \E j, k \in Matching :
        /\ j < k
        /\ args.df.rows[j].nfl_id = args.df.rows[k].nfl_id
        /\ args.df.rows[j].frame_id > args.df.rows[k].frame_id
        /\ args.df.rows[j].x # args.df.rows[k].x

\* C4: for a play of k distinct players the trajectories and the labels both
\* have length k, both are listed by ascending player identifier, and
\* labels[i] is the label of the player whose rows made trajectories[i].
C4_ParallelAscending ==
    AggReturned =>
        LET k == Cardinality(Players)
            ids == Ascending(Players)
        IN  /\ Len(ret.points_array) = k
            /\ Len(ret.labels) = k
            /\ \A i \in 1..(k - 1) : ids[i] < ids[i + 1]
            /\ \A i \in 1..k :
                /\ IsTrajectoryOf(ret.points_array[i], RowsOf(ids[i]))
                /\ IF PLAYER_NAME \in args.df.columns
                   THEN \E j \in RowsOf(ids[i]) :
                            ret.labels[i] = args.df.rows[j].player_name
                   ELSE ret.labels[i] = Some("Player " \o ToString(ids[i]))

\* A play of two players whose rows the table holds with the larger identifier
\* first, and whose trajectories differ.
C4_Witness ==
    /\ AggReturned
    /\ Cardinality(Players) = 2
    /\ Len(ret.points_array) = 2
    /\ ret.points_array[1] # ret.points_array[2]
    /\ \E j, k \in Matching :
        j < k /\ args.df.rows[j].nfl_id > args.df.rows[k].nfl_id

\* Both landing columns are in the table.
HasLanding == BALL_LAND_X \in args.df.columns /\ BALL_LAND_Y \in args.df.columns

\* C3: the returned landing point is present exactly when both landing columns
\* exist and the first selected row (a row of the play of least frame, the one
\* the code reads) holds a value in both; it is then that row's pair.  It is
\* absent when a column is missing and when that row lacks x or y, whatever
\* later rows hold.
C3_LandingFromFirstRow ==
    AggReturned =>
        LET play_df == locals.play_df
            first == play_df[1]
        IN  /\ Len(play_df) = Cardinality(Matching)
            /\ Len(play_df) > 0 =>
                  \E j \in Matching :
                      /\ args.df.rows[j] = first
                      /\ \A k \in Matching :
                            args.df.rows[j].frame_id <= args.df.rows[k].frame_id
            /\ ret.ball_land # None <=>
                  /\ HasLanding
                  /\ Len(play_df) > 0
                  /\ first.ball_land_x # None
                  /\ first.ball_land_y # None
            /\ ret.ball_land # None =>
                  ret.ball_land = Some(<<first.ball_land_x[1], first.ball_land_y[1]>>)

\* Both columns exist, the first selected row lacks a landing value, a later
\* row of the play holds both, and the landing point is absent.
C3_Witness ==
    /\ AggReturned
    /\ HasLanding
    /\ Len(locals.play_df) >= 2
    /\ \/ locals.play_df[1].ball_land_x = None
       \/ locals.play_df[1].ball_land_y = None
    /\ locals.play_df[2].frame_id > locals.play_df[1].frame_id
    /\ locals.play_df[2].ball_land_x # None
    /\ locals.play_df[2].ball_land_y # None
    /\ ret.ball_land = None

\* C2: a selection that matches no row raises nothing and returns (empty
\* trajectory list, empty label list, absent landing point), for every schema.
C2_EmptySelectionReturnsEmpty ==
    (fn = "get_player_points_array" /\ pc # "call" /\ Matching = {}) =>
        /\ pc = "returned"
        /\ ret.points_array = <<>>
        /\ ret.labels = <<>>
        /\ ret.ball_land = None

\* C6: every returned label is a display string: the player's name when one is
\* available, else "Player {id}"; never a missing value.
C6_LabelsAreStrings ==
    AggReturned =>
        LET ids == Ascending(Players)
        IN  \A i \in 1..Len(ret.labels) :
              LET names == {args.df.rows[j].player_name : j \in RowsOf(ids[i])} \ {None}
              IN  /\ ret.labels[i] # None
                  /\ IF PLAYER_NAME \in args.df.columns /\ names # {}
                     THEN ret.labels[i] \in names
                     ELSE ret.labels[i] = Some("Player " \o ToString(ids[i]))

---------------------------------------------------------------------------
(* is_offensive_player *)

\* Mutant: a role of the list mistyped, so that it never matches.
is_offensive_player_typo(player_role) ==
    [i \in 1..Len(player_role) |->
        player_role[i] \in {Some("Other Route Runner"), Some("Passer"),
                            Some("Targetted Receiver")}]

\* player_role.isin([...]): an element-wise membership test that keeps the
\* index; a missing role equals none of the listed values.
is_offensive_player(player_role) ==
    [i \in 1..Len(player_role) |->
        player_role[i] \in {Some("Other Route Runner"), Some("Passer"),
                            Some("Targeted Receiver")}]

call_is_offensive_player ==
    /\ fn = "is_offensive_player"
    /\ pc = "call"
    /\ pc' = "returned"
    /\ ret' = is_offensive_player(args.player_role)
    /\ UNCHANGED <<fn, args, locals, exc, canvas>>

\* Role values drawn: the three offensive roles, two other roles, a role that
\* differs from an offensive one in case only, and a missing role.
Roles ==
    {Some("Other Route Runner"), Some("Passer"), Some("Targeted Receiver"),
     Some("Blocker"), Some("Defensive Coverage"), Some("passer"), None}

RoleInit ==
    /\ fn = "is_offensive_player"
    /\ pc = "call"
    /\ args \in {[player_role |-> r] : r \in SeqsUpTo(Roles, MaxRoles)}
    /\ locals = None
    /\ ret = None
    /\ exc = ""
    /\ canvas = <<>>

SpecRole == RoleInit /\ [][call_is_offensive_player]_vars

\* C7: the mask has the length and order of the role sequence, entry i is
\* true exactly when role i is "Other Route Runner", "Passer" or "Targeted
\* Receiver", false for any other value and for a missing role; no input
\* raises.
C7_RoleMask ==
    /\ fn = "is_offensive_player" => pc # "raised"
    /\ (fn = "is_offensive_player" /\ pc = "returned") =>
        /\ Len(ret) = Len(args.player_role)
        /\ \A i \in 1..Len(ret) :
            LET role == args.player_role[i]
            IN  /\ ret[i] \in BOOLEAN
                /\ ret[i] <=> /\ role # None
                              /\ \/ role[1] = "Other Route Runner"
                                 \/ role[1] = "Passer"
                                 \/ role[1] = "Targeted Receiver"

\* The roles ["Passer", "Blocker", "Targeted Receiver", None] and their mask.
C7_Witness ==
    /\ fn = "is_offensive_player"
    /\ pc = "returned"
    /\ args.player_role = <<Some("Passer"), Some("Blocker"),
                            Some("Targeted Receiver"), None>>
    /\ ret = <<TRUE, FALSE, TRUE, FALSE>>

---------------------------------------------------------------------------
(* plot_multiple_points *)

\* Lengths of the field drawing are in tenths of a yard (53.3 yards = 533);
\* trajectory points are the numbers the caller passed.

\* plt.subplots, the field, the end zones, the yard lines, the sidelines and
\* the view limits.
field_background ==
    <<[kind |-> "figure", figsize |-> <<12, 5>>],
      [kind |-> "patch", xy |-> <<0, 0>>, width |-> 1200, height |-> 533,
       facecolor |-> "#2d5016", zorder |-> 0],
      [kind |-> "patch", xy |-> <<-100, 0>>, width |-> 100, height |-> 533,
       facecolor |-> "#1a3d0a", zorder |-> 0],
      [kind |-> "patch", xy |-> <<1200, 0>>, width |-> 100, height |-> 533,
       facecolor |-> "#1a3d0a", zorder |-> 0]>>
    \o [k \in 1..13 |->
          [kind |-> "fieldline", xs |-> <<(k - 1) * 100, (k - 1) * 100>>,
           ys |-> <<0, 533>>, zorder |-> 1]]
    \o <<[kind |-> "fieldline", xs |-> <<0, 1200>>, ys |-> <<0, 0>>, zorder |-> 1],
         [kind |-> "fieldline", xs |-> <<0, 1200>>, ys |-> <<533, 533>>, zorder |-> 1],
         [kind |-> "limits", xlim |-> <<-100, 1300>>, ylim |-> <<-50, 583>>]>>

\* plt.cm.tab10: a listed colormap of N colors.  Its lookup table holds the N
\* colors at 0..N-1 and three more entries: under (the first color) at N, over
\* (the last color) at N+1 and bad (transparent) at N+2.
N == 10
tab10_colors ==
    <<"tab:blue", "tab:orange", "tab:green", "tab:red", "tab:purple",
      "tab:brown", "tab:pink", "tab:gray", "tab:olive", "tab:cyan">>
tab10_lut ==
    [k \in 0..(N + 2) |->
        IF k < N THEN tab10_colors[k + 1]
        ELSE IF k = N THEN tab10_colors[1]
        ELSE IF k = N + 1 THEN tab10_colors[N]
        ELSE "none"]

\* Mutant: an integer past the last color is not sent to the over entry.
lut_index_unclipped(x) == IF x < 0 THEN N ELSE x

\* The table entry an integer is looked up at: integers above N-1 read the
\* over entry, negative ones the under entry.
lut_index(x) == IF x > N - 1 THEN N + 1 ELSE IF x < 0 THEN N ELSE x

\* lut.take(index, mode='clip'): the index is clipped to the table.
lut_take(k) == tab10_lut[IF k < 0 THEN 0 ELSE IF k > N + 2 THEN N + 2 ELSE k]

\* plt.cm.tab10(X) for a sequence of integers.
tab10(X) == [i \in 1..Len(X) |-> lut_take(lut_index(X[i]))]

\* range(n)
range(n) == [i \in 1..n |-> i - 1]

\* labels[i] if labels and i < len(labels) else f'Player {i+1}', i from 0.
trajectory_label(labels, i) ==
    IF labels # None /\ labels[1] # <<>> /\ i < Len(labels[1])
    THEN labels[1][i + 1]
    ELSE Some("Player " \o ToString(i + 1))

\* Mutant: the arrow guard off by one.
has_arrow_strict(points) == Len(points) > 2

\* if len(points) >= 2
has_arrow(points) == Len(points) >= 2

\* One pass of the loop: the line of a trajectory, then its arrow.
trajectory_artists(points, color, label) ==
    LET x_coords == [k \in 1..Len(points) |-> points[k][1]]
        y_coords == [k \in 1..Len(points) |-> points[k][2]]
        n == Len(points)
    IN  <<[kind |-> "line", xs |-> x_coords, ys |-> y_coords, fmt |-> "-o",
           color |-> color, label |-> label, zorder |-> 2]>>
        \o (IF has_arrow(points)
            THEN <<[kind |-> "arrow", x |-> x_coords[n - 1], y |-> y_coords[n - 1],
                    dx |-> x_coords[n] - x_coords[n - 1],
                    dy |-> y_coords[n] - y_coords[n - 1],
                    fc |-> color, ec |-> color, zorder |-> 3]>>
            ELSE <<>>)

RECURSIVE draw_trajectories(_, _, _, _)
\* for i, points in enumerate(points_array), from 0-based index i on.
draw_trajectories(points_array, colors, labels, i) ==
    IF i >= Len(points_array) THEN <<>>
    ELSE trajectory_artists(points_array[i + 1], colors[i + 1],
                            trajectory_label(labels, i))
            \o draw_trajectories(points_array, colors, labels, i + 1)

\* The ball landing marker.
ball_marker(ball_land) ==
    IF ball_land # None
    THEN <<[kind |-> "marker", x |-> ball_land[1][1], y |-> ball_land[1][2],
            marker |-> "*", color |-> "yellow", label |-> Some("Ball Landing"),
            zorder |-> 4]>>
    ELSE <<>>

\* The title of either renderer.
plot_title(generic, game_id, play_id) ==
    IF truthy(game_id) /\ truthy(play_id)
    THEN "Game: " \o ToString(game_id[1]) \o ", Play: " \o ToString(play_id[1])
    ELSE generic

\* The legend lists the labelled artists in drawing order.
legend_entries(artists) ==
    LET labelled(a) == a.kind \in {"line", "marker"}
        l == SelectSeq(artists, labelled)
    IN  [k \in 1..Len(l) |-> l[k].label]

plot_multiple_points ==
    /\ fn = "plot_multiple_points"
    /\ pc = "call"
    /\ LET colors == tab10(range(Len(args.points_array)))
           drawn == draw_trajectories(args.points_array, colors, args.labels, 0)
                        \o ball_marker(args.ball_land)
       IN  /\ locals' = [colors |-> colors,
                          lut_reads |-> [i \in 1..Len(colors) |-> lut_index(i - 1)]]
           /\ canvas' = field_background \o drawn
                  \o <<[kind |-> "xlabel", text |-> "X (yards)"],
                       [kind |-> "ylabel", text |-> "Y (yards)"],
                       [kind |-> "title",
                        text |-> plot_title("Player Trajectories",
                                            args.game_id, args.play_id)],
                       [kind |-> "legend", entries |-> legend_entries(drawn)],
                       [kind |-> "show"]>>
    /\ pc' = "returned"
    /\ ret' = None
    /\ UNCHANGED <<fn, args, exc>>

\* Trajectories drawn: none, one, two and three points.
TwoPoints == <<<<50, 25>>, <<48, 26>>>>
TrajChoices == {<<>>, <<<<5, 5>>>>, TwoPoints, <<<<10, 20>>, <<12, 21>>, <<14, 22>>>>}

\* Collections drawn: up to MaxVaried trajectories of any choice, then up to
\* MaxRepeat more of two points each.
PointsArrays ==
    {v \o [k \in 1..r |-> TwoPoints] :
        v \in SeqsUpTo(TrajChoices, MaxVaried), r \in 0..MaxRepeat}

TitleArgs ==
    {<<None, None>>, <<Some(100), Some(7)>>, <<Some(0), Some(7)>>, <<Some(100), None>>}

PlotInit ==
    /\ fn = "plot_multiple_points"
    /\ pc = "call"
    /\ args \in {[points_array |-> pa, ball_land |-> b, game_id |-> t[1],
                  play_id |-> t[2], labels |-> l] :
                    pa \in PointsArrays, b \in {None, Some(<<60, 10>>)},
                    t \in TitleArgs,
                    l \in {None, Some(<<>>), Some(<<Some("Ann")>>),
                           Some(<<Some("Ann"), Some("Bob")>>)}}
    /\ locals = None
    /\ ret = None
    /\ exc = ""
    /\ canvas = <<>>

SpecPlot == PlotInit /\ [][plot_multiple_points]_vars

---------------------------------------------------------------------------
(* plot_single_trajectory *)

plot_single_trajectory ==
    /\ fn = "plot_single_trajectory"
    /\ pc = "call"
    /\ LET points == args.points
           x_coords == [k \in 1..Len(points) |-> points[k][1]]
           y_coords == [k \in 1..Len(points) |-> points[k][2]]
           n == Len(points)
           started ==
               <<[kind |-> "figure", figsize |-> <<12, 5>>],
                 [kind |-> "limits", xlim |-> <<-5, 125>>, ylim |-> <<-5, 58>>],
                 [kind |-> "line", xs |-> x_coords, ys |-> y_coords, fmt |-> "b-o",
                  color |-> "b", label |-> None]>>
       IN  IF n = 0
           THEN \* x_coords[0] of an empty list
                /\ canvas' = started
                /\ pc' = "raised"
                /\ exc' = "IndexError"
           ELSE /\ canvas' = started
                    \o <<[kind |-> "marker", x |-> x_coords[1], y |-> y_coords[1],
                          marker |-> "go", color |-> "g", label |-> Some("Start")],
                         [kind |-> "marker", x |-> x_coords[n], y |-> y_coords[n],
                          marker |-> "ro", color |-> "r", label |-> Some("End")],
                         [kind |-> "xlabel", text |-> "X (yards)"],
                         [kind |-> "ylabel", text |-> "Y (yards)"],
                         [kind |-> "title",
                          text |-> plot_title("Player Trajectory",
                                              args.game_id, args.play_id)],
                         [kind |-> "grid"],
                         [kind |-> "legend", entries |-> <<Some("Start"), Some("End")>>],
                         [kind |-> "show"]>>
                /\ pc' = "returned"
                /\ exc' = ""
    /\ ret' = None
    /\ UNCHANGED <<fn, args, locals>>

SingleInit ==
    /\ fn = "plot_single_trajectory"
    /\ pc = "call"
    /\ args \in {[points |-> pts, game_id |-> t[1], play_id |-> t[2]] :
                    pts \in SeqsUpTo({<<5, 5>>, <<10, 20>>, <<12, 21>>}, MaxPoints),
                    t \in TitleArgs}
    /\ locals = None
    /\ ret = None
    /\ exc = ""
    /\ canvas = <<>>

SpecSingle == SingleInit /\ [][plot_single_trajectory]_vars

---------------------------------------------------------------------------
(* What the renderers' claims speak of *)

PlotReturned == fn = "plot_multiple_points" /\ pc = "returned"

IsLine(a) == a.kind = "line"
IsArrow(a) == a.kind = "arrow"
\* The trajectory lines drawn, in drawing order, and the arrows.
Lines == SelectSeq(canvas, IsLine)
Arrows == SelectSeq(canvas, IsArrow)

\* The canvas positions of the trajectory lines, ascending.
LinePositions == Ascending({q \in 1..Len(canvas) : canvas[q].kind = "line"})

\* C8: for any number n of trajectories, more than the 10 colors of the
\* palette included, the call ends without error, every index 0..n-1 gets a
\* color of the palette read inside the color table, and every trajectory is
\* drawn.
C8_ColorForEveryIndex ==
    /\ fn = "plot_multiple_points" => pc # "raised"
    /\ PlotReturned =>
        LET n == Len(args.points_array)
        IN  /\ Len(locals.colors) = n
            /\ Len(Lines) = n
            /\ \A i \in 1..n :
                /\ locals.lut_reads[i] \in 0..(N + 2)
                /\ \E c \in 1..N : locals.colors[i] = tab10_colors[c]
                /\ Lines[i].color = locals.colors[i]
                /\ Len(Lines[i].xs) = Len(args.points_array[i])

\* A call with 13 trajectories, all drawn.
C8_Witness ==
    /\ PlotReturned
    /\ Len(args.points_array) = 13
    /\ Len(Lines) = 13

\* C9: an arrow is drawn for a trajectory exactly when it has at least 2
\* points, right after its line; it starts at the second-to-last point, its
\* displacement is last minus second-to-last, and it has the color of the line.
\* A trajectory of 0 or 1 points gets no arrow, raises nothing, and every
\* trajectory of the call still gets its line.
C9_ArrowIffTwoPoints ==
    /\ fn = "plot_multiple_points" => pc # "raised"
    /\ PlotReturned =>
        LET n == Len(args.points_array)
            at == LinePositions
        IN  /\ Len(at) = n
            /\ Len(Arrows) = Cardinality({i \in 1..n : Len(args.points_array[i]) >= 2})
            /\ \A i \in 1..n :
                LET points == args.points_array[i]
                    m == Len(points)
                    line == canvas[at[i]]
                    next == canvas[at[i] + 1]
                IN  /\ Len(line.xs) = m
                    /\ Len(line.ys) = m
                    /\ \A k \in 1..m : <<line.xs[k], line.ys[k]>> = points[k]
                    /\ (next.kind = "arrow") <=> (m >= 2)
                    /\ m >= 2 =>
                        /\ <<next.x, next.y>> = points[m - 1]
                        /\ next.dx = points[m][1] - points[m - 1][1]
                        /\ next.dy = points[m][2] - points[m - 1][2]
                        /\ next.fc = line.color
                        /\ next.ec = line.color

\* A call whose collection holds an empty trajectory, a one-point trajectory,
\* a two-point one and a three-point one: two arrows, four lines.
C9_Witness ==
    /\ PlotReturned
    /\ \E i, j, k, l \in 1..Len(args.points_array) :
        /\ Len(args.points_array[i]) = 0
        /\ Len(args.points_array[j]) = 1
        /\ Len(args.points_array[k]) = 2
        /\ Len(args.points_array[l]) = 3
        /\ i < l
    /\ Len(Lines) = Len(args.points_array)
    /\ Len(Arrows) >= 2

\* C10: in one call any two different trajectory indices are drawn in
\* different colors.
C10_DistinctColors ==
    PlotReturned =>
        \A i, j \in 1..Len(Lines) : i # j => Lines[i].color # Lines[j].color

\* C5: a trajectory of zero points is rejected deliberately before anything is
\* drawn; no index fault reaches the caller.
C5_EmptyRejectedBeforeDrawing ==
    (fn = "plot_single_trajectory" /\ pc # "call" /\ args.points = <<>>) =>
        /\ pc = "raised"
        /\ exc # "IndexError"
        /\ canvas = <<>>

====
